---- MODULE Spec2Model ----
(***************************************************************************)
(* State machine of the TCP proxy of aiomisc_pytest.py: Delay, TCPProxy    *)
(* and TCPProxyClient, run by one asyncio event loop.  One action is one   *)
(* run of a callback or of a coroutine between two suspension points.      *)
(***************************************************************************)
EXTENDS Integers, Sequences, FiniteSets, TLC

\* ------------------------------------------------------------- bounds
NSessions == 2      \* connections the listener accepts in one run
MaxDelay == 2       \* largest delay value passed to a setter
NHandles == 2       \* disconnect_all() calls in one run
MaxScopes == 2      \* slowdown() scopes entered in one run

NCallers == 2       \* tasks other than pipe() that call Delay.wait()
MaxPayload == 3     \* bytes a client sends in one run
chunk_size == 2     \* TCPProxyClient.chunk_size, scaled to the payloads
MaxTime == 3        \* loop.time() at the end of a run

Sessions == 1..NSessions
Handles == 1..NHandles
Scopes == 1..MaxScopes
Callers == 1..NCallers
Dirs == {"read", "write"}

\* Values a caller passes as a delay: the valid ones and one negative one.
DelayInputs == (0 - 1)..MaxDelay

\* Values a caller passes as a processor: None or a callable.
None == "None"
Callables == {"const", "reverse"}
ProcInputs == {None} \cup Callables

NoError == "no error"
AssertionError == "AssertionError"
InvalidStateError == "InvalidStateError"
TimeoutError == "TimeoutError"
CancelledError == "CancelledError"
ProcessorError == "ProcessorError"
ConnectionError == "ConnectionError"

VARIABLES
    proxy,      \* TCPProxy: read_delay, write_delay, read_processor,
                \*   write_processor, clients, server
    conn,       \* per Session: where _handle_client / connect stands
    delay,      \* per Session and direction: the Delay object
    processors, \* per Session: TCPProxyClient.__processors
    task,       \* per Session and direction: the pipe() task
    closing,    \* per Session: the closing future, its callbacks, and the
                \*   loop.call_soon(closing.set_result, True) calls not yet run
    gathers,    \* per disconnect_all() call: the gathered close() coroutines
    pclose,     \* the TCPProxy.close() coroutine
    scopes,     \* slowdown() generators suspended at their yield
    raised,     \* what the last control call raised in its caller
    loop_errors,\* exceptions that reached the event loop's exception handler
    direct,     \* history: the processor last assigned on the Session itself
    failed,     \* history: whether a set_delay call has raised
    pstart,     \* the TCPProxy.start() coroutine
    lock,       \* per Delay: its asyncio.Lock
    callers,    \* tasks other than pipe() that call Delay.wait()
    now,        \* loop.time()
    data        \* per Session and direction: the bytes on their way

vars == <<proxy, conn, delay, processors, task, closing, gathers, pclose,
          scopes, raised, loop_errors, direct, failed, pstart, lock, callers,
          now, data>>

\* ------------------------------------------------------------- Delay

\* Delay.__init__
NewDelay == [timeout |-> 0, future |-> None]

\* The two asserts of the timeout setter.
ValidTimeout(value) == value >= 0

\* Future.done(): resolved by the setter, by the timer, or cancelled.
FutureDone(f) == f \in {"set", "fired", "cancelled"}

\* A setter that would store the value and leave an outstanding future to
\* its timer.
DelaySetTimeoutKeepsTimer(d, value) ==
    [timeout |-> value, future |-> d.future]

\* Delay.timeout setter past its asserts: store the value and resolve an
\* outstanding future ("set": resolved by the setter, the timer handle is
\* cancelled by the future's done callback).
DelaySetTimeout(d, value) ==
    [timeout |-> value,
     future |-> IF d.future # None /\ ~FutureDone(d.future) THEN "set" ELSE d.future]

\* ------------------------------------------------------------- Delay.lock

\* The tasks that call Delay.wait(): the pipe() task of the Delay's
\* direction, and the other callers.
Pipe == <<"pipe", 0>>
Caller(c) == <<"caller", c>>

\* The future a task awaits in Lock.acquire.
Waiter(who) == [who |-> who, fut |-> "pending"]

\* A lock that would let every acquire through.
LockAlwaysFree(l) == TRUE

\* The test of Lock.acquire: not locked, and every waiter cancelled.
LockFree(l) ==
    ~l.locked /\ \A i \in 1..Len(l.waiters) : l.waiters[i].fut = "cancelled"

\* Lock.acquire up to its return or its await.
Acquire(l, who) ==
    IF LockFree(l) THEN [l EXCEPT !.locked = TRUE]
    ELSE [l EXCEPT !.waiters = Append(@, Waiter(who))]

\* Lock._wake_up_first: the future of the first waiter gets its result
\* unless it is done.
WakeUpFirst(l) ==
    IF l.waiters # <<>> /\ l.waiters[1].fut = "pending"
    THEN [l EXCEPT !.waiters[1].fut = "set"] ELSE l

\* Lock.release
Release(l) == WakeUpFirst([l EXCEPT !.locked = FALSE])

\* self._waiters.remove(fut)
Without(l, who) ==
    [l EXCEPT !.waiters = SelectSeq(@, LAMBDA w : w.who # who)]

\* The future of a waiter has its result: its task is scheduled.
Woken(l, who) ==
    \E i \in 1..Len(l.waiters) :
        l.waiters[i].who = who /\ l.waiters[i].fut = "set"

\* Lock.acquire resumed by the result of its future.
Resume(l, who) == [Without(l, who) EXCEPT !.locked = TRUE]

\* Lock.acquire resumed by CancelledError: the future is removed, and the
\* first waiter is woken if the lock is not locked.
Abandon(l, who) ==
    IF l.locked THEN Without(l, who) ELSE WakeUpFirst(Without(l, who))

\* Task.cancel() of a task suspended in Lock.acquire: its future is
\* cancelled unless it is done.
CancelWaiter(l, who) ==
    [l EXCEPT !.waiters =
        [i \in 1..Len(l.waiters) |->
            IF l.waiters[i].who = who /\ l.waiters[i].fut = "pending"
            THEN [l.waiters[i] EXCEPT !.fut = "cancelled"]
            ELSE l.waiters[i]]]

\* ------------------------------------------------------------- processors

\* TCPProxyClient._blank_processor and aiomisc.awaitable(value)
BlankProcessor == <<"_blank_processor">>
Awaitable(value) == <<"awaitable", value>>

\* read_processor / write_processor setter of TCPProxyClient
ProcessorSetter(value) ==
    IF value = None THEN BlankProcessor ELSE Awaitable(value)

NewProcessors == [read |-> BlankProcessor, write |-> BlankProcessor]

\* ------------------------------------------------------------- construction

\* TCPProxy.__init__
NewProxy(buffered) ==
    [read_delay |-> 0, write_delay |-> 0,
     read_processor |-> None, write_processor |-> None,
     clients |-> {}, server |-> None, buffered |-> buffered]

\* A pipe() task: none before connect() creates it.
NoTask == [pc |-> "none", must_cancel |-> FALSE, writer_closed |-> FALSE,
           exc |-> None]

\* TCPProxyClient.closing: the future, its done callbacks in the order they
\* were added, and the scheduled closing.set_result calls not yet run.
NewClosing == [state |-> "pending", callbacks |-> <<>>, set_results |-> 0]

NoGather == [called |-> FALSE, close |-> [s \in Sessions |-> "absent"]]

NoScope == [active |-> FALSE, old_read_delay |-> 0, old_write_delay |-> 0]

\* Nothing was assigned on the Session object itself.
Never == <<"never">>
NoDirect == [d \in Dirs |-> Never]

\* The start() coroutine before it is called.
NewStart == [pc |-> "idle"]

\* asyncio.Lock(): not locked, nobody waiting.
NewLock == [locked |-> FALSE, waiters |-> <<>>]

\* A task that has not called Delay.wait().
NoCaller == [pc |-> "idle", on |-> <<>>, must_cancel |-> FALSE]

\* One direction of a Session with nothing sent: the bytes the source peer
\* has sent and when, those still on the wire to the source reader, those the reader
\* has buffered, the chunk pipe() holds and the processor it was handed to,
\* the time it was read at and the time its timer is due, the chunks read,
\* the chunks whose write was made and what was written for them, how
\* many written chunks the target has echoed, and whether the stream is
\* open, was ended by the source peer, or had its connection closed by the
\* Session.
NewStream == [sent |-> <<>>, sent_at |-> 0, wire |-> <<>>, buf |-> <<>>, held |-> <<>>,
              using |-> <<>>, read_at |-> 0, due |-> 0,
              reads |-> <<>>, wrote |-> <<>>, writes |-> <<>>, echoed |-> 0,
              eof |-> "open"]

Init ==
    /\ \E buffered \in BOOLEAN : proxy = NewProxy(buffered)
    /\ conn = [s \in Sessions |-> "none"]
    /\ delay = [s \in Sessions |-> [d \in Dirs |-> NewDelay]]
    /\ processors = [s \in Sessions |-> NewProcessors]
    /\ task = [s \in Sessions |-> [d \in Dirs |-> NoTask]]
    /\ closing = [s \in Sessions |-> NewClosing]
    /\ gathers = [h \in Handles |-> NoGather]
    /\ pclose = [pc |-> "idle", handle |-> 0, completed |-> 0]
    /\ scopes = [k \in Scopes |-> NoScope]
    /\ raised = NoError
    /\ loop_errors = {}
    /\ direct = [s \in Sessions |-> NoDirect]
    /\ failed = FALSE
    /\ pstart = NewStart
    /\ lock = [s \in Sessions |-> [d \in Dirs |-> NewLock]]
    /\ callers = [c \in Callers |-> NoCaller]
    /\ now = 0
    /\ data = [s \in Sessions |-> [d \in Dirs |-> NewStream]]

\* ------------------------------------------------------------- TCPProxy

\* A start() that would keep the server object from the call on.
StartCallKeepsHandle ==
    /\ proxy.server = None
    /\ pstart.pc # "binding"
    /\ pstart' = [pstart EXCEPT !.pc = "binding"]
    /\ proxy' = [proxy EXCEPT !.server = "binding"]
    /\ UNCHANGED <<conn, delay, processors, task, closing, gathers, pclose,
                   scopes, raised, loop_errors, direct, failed, lock, callers,
                   now, data>>

\* __aenter__ finds no server and calls start(timeout): the coroutine
\* suspends in wait_for(asyncio.start_server(...)).
StartCall ==
    /\ proxy.server = None
    /\ pstart.pc # "binding"
    /\ pstart' = [pstart EXCEPT !.pc = "binding"]
    /\ UNCHANGED <<proxy, conn, delay, processors, task, closing, gathers,
                   pclose, scopes, raised, loop_errors, direct, failed, lock,
                   callers, now, data>>

\* The timeout of wait_for expires before start_server has bound: the
\* start_server task is cancelled, TimeoutError leaves start(), and the
\* assignment of self.server is not reached.
StartTimeout ==
    /\ pstart.pc = "binding"
    /\ pstart' = [pstart EXCEPT !.pc = "timeout"]
    /\ raised' = TimeoutError
    /\ UNCHANGED <<proxy, conn, delay, processors, task, closing, gathers,
                   pclose, scopes, loop_errors, direct, failed, lock, callers,
                   now, data>>

\* start_server returned in time: self.server = server, and start()
\* returns it.
ProxyStart ==
    /\ pstart.pc = "binding"
    /\ proxy' = [proxy EXCEPT !.server = "serving"]
    /\ pstart' = [pstart EXCEPT !.pc = "returned"]
    /\ UNCHANGED <<conn, delay, processors, task, closing, gathers, pclose,
                   scopes, raised, loop_errors, direct, failed, lock, callers,
                   now, data>>

\* The for loop of set_delay over self.clients, in the order the set
\* yields them, up to the first assert that fails.  With read_delay valid
\* and write_delay not, the first client has its read timeout assigned
\* before the assert of its write timeout fails.
SetDelayClients(read_delay, write_delay, first) ==
    IF proxy.clients = {} \/ ~ValidTimeout(read_delay) THEN delay
    ELSE IF ~ValidTimeout(write_delay)
    THEN [delay EXCEPT ![first].read = DelaySetTimeout(@, read_delay)]
    ELSE [s \in Sessions |->
            IF s \in proxy.clients
            THEN [read |-> DelaySetTimeout(delay[s].read, read_delay),
                  write |-> DelaySetTimeout(delay[s].write, write_delay)]
            ELSE delay[s]]

\* Whether set_delay raises: only a client's Delay checks the values.
SetDelayRaises(read_delay, write_delay) ==
    /\ proxy.clients # {}
    /\ ~ValidTimeout(read_delay) \/ ~ValidTimeout(write_delay)

\* The two assignments that end set_delay, reached when nothing raised.
SetDelayDefaults(read_delay, write_delay) ==
    IF SetDelayRaises(read_delay, write_delay) THEN proxy
    ELSE [proxy EXCEPT !.read_delay = read_delay, !.write_delay = write_delay]

\* TCPProxy.set_delay
set_delay(read_delay, write_delay) ==
    /\ \E first \in (IF proxy.clients = {} THEN {0} ELSE proxy.clients) :
          delay' = SetDelayClients(read_delay, write_delay, first)
    /\ proxy' = SetDelayDefaults(read_delay, write_delay)
    /\ failed' = (failed \/ SetDelayRaises(read_delay, write_delay))
    /\ UNCHANGED <<conn, processors, task, closing, gathers, pclose,
                   loop_errors, direct, pstart, lock, callers, now, data>>

\* A call of set_delay from outside the proxy.
SetDelay(read_delay, write_delay) ==
    /\ set_delay(read_delay, write_delay)
    /\ raised' = IF SetDelayRaises(read_delay, write_delay)
                 THEN AssertionError ELSE NoError
    /\ UNCHANGED scopes

\* A loop that would skip the processors assigned on a Session itself.
SetProcessorsClientsKeepsOverride(read, write) ==
    [s \in Sessions |->
        IF s \in proxy.clients
        THEN [read |-> IF direct[s].read # Never THEN processors[s].read
                       ELSE ProcessorSetter(read),
              write |-> IF direct[s].write # Never THEN processors[s].write
                        ELSE ProcessorSetter(write)]
        ELSE processors[s]]

\* The for loop of set_content_processors over self.clients.
SetProcessorsClients(read, write) ==
    [s \in Sessions |->
        IF s \in proxy.clients
        THEN [read |-> ProcessorSetter(read), write |-> ProcessorSetter(write)]
        ELSE processors[s]]

\* TCPProxy.set_content_processors
SetContentProcessors(read, write) ==
    /\ processors' = SetProcessorsClients(read, write)
    /\ proxy' = [proxy EXCEPT !.read_processor = read, !.write_processor = write]
    /\ raised' = NoError
    /\ UNCHANGED <<conn, delay, task, closing, gathers, pclose, scopes,
                   loop_errors, direct, failed,
                   pstart, lock, callers, now, data>>

\* The sessions _handle_client has not been called for yet.
Unaccepted == {s \in Sessions : conn[s] = "none"}

\* A handler that would leave the new client's delays as constructed.
SeedDelayForgotten(s) == delay[s]

\* The assignments of _handle_client that seed the new client from the
\* proxy's defaults, in their order, up to the first assert that fails.
SeedDelay(s) ==
    IF ~ValidTimeout(proxy.read_delay) THEN delay[s]
    ELSE IF ~ValidTimeout(proxy.write_delay)
    THEN [delay[s] EXCEPT !.read = DelaySetTimeout(@, proxy.read_delay)]
    ELSE [read |-> DelaySetTimeout(delay[s].read, proxy.read_delay),
          write |-> DelaySetTimeout(delay[s].write, proxy.write_delay)]

SeedRaises ==
    ~ValidTimeout(proxy.read_delay) \/ ~ValidTimeout(proxy.write_delay)

SeedProcessors(s) ==
    IF SeedRaises THEN processors[s]
    ELSE [read |-> ProcessorSetter(proxy.read_processor),
          write |-> ProcessorSetter(proxy.write_processor)]

\* TCPProxy._handle_client up to its await of client.connect: the client is
\* added to self.clients, seeded, and connect() suspends in open_connection.
\* An assert that fails ends the handler's task with the client in the set.
HandleClient(s) ==
    /\ proxy.server = "serving"
    /\ s \in Unaccepted
    /\ \A o \in Unaccepted : s <= o
    /\ proxy' = [proxy EXCEPT !.clients = @ \cup {s}]
    /\ delay' = [delay EXCEPT ![s] = SeedDelay(s)]
    /\ processors' = [processors EXCEPT ![s] = SeedProcessors(s)]
    /\ conn' = [conn EXCEPT ![s] = IF SeedRaises THEN "error" ELSE "connecting"]
    /\ loop_errors' = IF SeedRaises THEN loop_errors \cup {AssertionError}
                      ELSE loop_errors
    /\ UNCHANGED <<task, closing, gathers, pclose, scopes, raised, direct,
                   failed, pstart, lock, callers, now, data>>

\* A task connect() has just created: its first step is scheduled.
NewTask == [pc |-> "created", must_cancel |-> FALSE, writer_closed |-> FALSE,
            exc |-> None]

\* closing.add_done_callback(lambda _: self.clients.remove(client))
RemoveCallback == <<"remove", 0>>

\* open_connection returned: connect() creates the two pipe() tasks and
\* returns, and _handle_client adds the done callback to closing.
ConnectDone(s) ==
    /\ conn[s] = "connecting"
    /\ conn' = [conn EXCEPT ![s] = "connected"]
    /\ task' = [task EXCEPT ![s] = [d \in Dirs |-> NewTask]]
    /\ closing' = [closing EXCEPT ![s].callbacks = Append(@, RemoveCallback)]
    /\ UNCHANGED <<proxy, delay, processors, gathers, pclose, scopes, raised,
                   loop_errors, direct, failed,
                   pstart, lock, callers, now, data>>

\* open_connection raised: the error leaves connect() and _handle_client,
\* whose task ends with it; no done callback was added.
ConnectFailed(s) ==
    /\ conn[s] = "connecting"
    /\ conn' = [conn EXCEPT ![s] = "failed"]
    /\ UNCHANGED <<proxy, delay, processors, task, closing, gathers, pclose,
                   scopes, raised, loop_errors, direct, failed,
                   pstart, lock, callers, now, data>>

\* ------------------------------------------------------------- assignments on a Session

\* client.read_delay.timeout = value (d = "read") or
\* client.write_delay.timeout = value, by the holder of a client: the asserts
\* come before the assignment.
SessionSetTimeout(s, d, value) ==
    /\ conn[s] # "none"
    /\ delay' = IF ValidTimeout(value)
                THEN [delay EXCEPT ![s][d] = DelaySetTimeout(@, value)]
                ELSE delay
    /\ raised' = IF ValidTimeout(value) THEN NoError ELSE AssertionError
    /\ UNCHANGED <<proxy, conn, processors, task, closing, gathers, pclose,
                   scopes, loop_errors, direct, failed,
                   pstart, lock, callers, now, data>>

\* client.read_processor = value or client.write_processor = value
SessionSetProcessor(s, d, value) ==
    /\ conn[s] # "none"
    /\ processors' = [processors EXCEPT ![s][d] = ProcessorSetter(value)]
    /\ direct' = [direct EXCEPT ![s][d] = ProcessorSetter(value)]
    /\ raised' = NoError
    /\ UNCHANGED <<proxy, conn, delay, task, closing, gathers, pclose, scopes,
                   loop_errors, failed, pstart, lock, callers, now, data>>

\* ------------------------------------------------------------- slowdown

FreeScopes == {k \in Scopes : ~scopes[k].active}

\* slowdown() up to its yield: the old values are read, set_delay is called,
\* and the generator suspends inside the try.  When set_delay raises, the
\* generator ends before the try and nothing is restored.
SlowdownEnter(k, read_delay, write_delay) ==
    /\ k \in FreeScopes
    /\ \A o \in FreeScopes : k <= o
    /\ set_delay(read_delay, write_delay)
    /\ raised' = IF SetDelayRaises(read_delay, write_delay)
                 THEN AssertionError ELSE NoError
    /\ scopes' = IF SetDelayRaises(read_delay, write_delay) THEN scopes
                 ELSE [scopes EXCEPT ![k] =
                         [active |-> TRUE,
                          old_read_delay |-> proxy.read_delay,
                          old_write_delay |-> proxy.write_delay]]

\* The finally of slowdown(), run when the with body returns (body_raised
\* FALSE) or raises: set_delay(old_read_delay, old_write_delay), and then
\* the body's exception, if any, goes on to the caller.
SlowdownExit(k, body_raised) ==
    /\ scopes[k].active
    /\ set_delay(scopes[k].old_read_delay, scopes[k].old_write_delay)
    /\ raised' = IF SetDelayRaises(scopes[k].old_read_delay,
                                   scopes[k].old_write_delay)
                 THEN AssertionError
                 ELSE IF body_raised THEN "BodyError" ELSE NoError
    /\ scopes' = [scopes EXCEPT ![k].active = FALSE]

\* ------------------------------------------------------------- pipe

\* Task.done()
TaskDone(tk) == tk.pc \in {"finished", "cancelled", "failed"}

\* The points where pipe() is suspended inside its try.
InTry == {"read", "lock", "wait", "proc", "drain"}

\* The first step of a pipe() task: it enters the try and suspends in
\* reader.read.
PipeStart(s, d) ==
    /\ task[s][d].pc = "created"
    /\ ~task[s][d].must_cancel
    /\ task' = [task EXCEPT ![s][d].pc = "read"]
    /\ UNCHANGED <<proxy, conn, delay, processors, closing, gathers, pclose,
                   scopes, raised, loop_errors, direct, failed,
                   pstart, lock, callers, now, data>>

\* Delay.wait with the lock acquired: delayed_future arms the timer and
\* wait suspends on the future.
DelayWait(dl) == [dl EXCEPT !.future = "pending"]

\* reader.read returned a chunk: with a positive timeout the task suspends
\* in delay.wait(), on the future or, when the lock is taken, on the lock;
\* else it goes on to the processor.
ReadChunk(s, d) ==
    /\ task[s][d].pc = "read"
    /\ ~task[s][d].must_cancel
    /\ IF delay[s][d].timeout > 0
       THEN /\ lock' = [lock EXCEPT ![s][d] = Acquire(@, Pipe)]
            /\ IF LockFree(lock[s][d])
               THEN /\ delay' = [delay EXCEPT ![s][d] = DelayWait(@)]
                    /\ task' = [task EXCEPT ![s][d].pc = "wait"]
               ELSE /\ task' = [task EXCEPT ![s][d].pc = "lock"]
                    /\ UNCHANGED delay
       ELSE /\ task' = [task EXCEPT ![s][d].pc = "proc"]
            /\ UNCHANGED <<delay, lock>>

\* The read of a chunk whose bytes are not followed.
PipeRead(s, d) ==
    /\ ReadChunk(s, d)
    /\ UNCHANGED <<proxy, conn, processors, closing, gathers, pclose, scopes,
                   raised, loop_errors, direct, failed,
                   pstart, callers, now, data>>

\* Lock.acquire of the pipe() task resumes in Delay.wait: the lock is its
\* own, the timer is armed and wait suspends on the future.
PipeLockAcquired(s, d) ==
    /\ task[s][d].pc = "lock"
    /\ ~task[s][d].must_cancel
    /\ Woken(lock[s][d], Pipe)
    /\ lock' = [lock EXCEPT ![s][d] = Resume(@, Pipe)]
    /\ delay' = [delay EXCEPT ![s][d] = DelayWait(@)]
    /\ task' = [task EXCEPT ![s][d].pc = "wait"]
    /\ UNCHANGED <<proxy, conn, processors, closing, gathers, pclose, scopes,
                   raised, loop_errors, direct, failed,
                   pstart, callers, now, data>>

\* _close_writer up to its await: writer.close() was called.
CloseWriter(tk, exc) ==
    [tk EXCEPT !.pc = "close_writer", !.writer_closed = TRUE,
               !.must_cancel = FALSE, !.exc = exc]

\* reader.read returned b"" (or at_eof() is true): the loop ends and the
\* finally closes the destination writer.
PipeEOF(s, d) ==
    /\ task[s][d].pc = "read"
    /\ ~task[s][d].must_cancel
    /\ task' = [task EXCEPT ![s][d] = CloseWriter(@, None)]
    /\ UNCHANGED <<proxy, conn, delay, processors, closing, gathers, pclose,
                   scopes, raised, loop_errors, direct, failed,
                   pstart, lock, callers, now, data>>

\* resolve(), the timer callback of delayed_future: it sets the result
\* unless the future is done.
TimerFired(s, d) ==
    /\ delay[s][d].future = "pending"
    /\ delay' = [delay EXCEPT ![s][d].future = "fired"]
    /\ UNCHANGED <<proxy, conn, processors, task, closing, gathers, pclose,
                   scopes, raised, loop_errors, direct, failed,
                   pstart, lock, callers, now, data>>

\* A wait that would start over with the new timeout when an assignment
\* resolved its future.
WaitDoneWaitsAgain(s, d) ==
    /\ task[s][d].pc = "wait"
    /\ ~task[s][d].must_cancel
    /\ delay[s][d].future \in {"set", "fired"}
    /\ delay' = [delay EXCEPT ![s][d].future =
                     IF @ = "set" THEN "pending" ELSE None]
    /\ lock' = IF delay[s][d].future = "set" THEN lock
               ELSE [lock EXCEPT ![s][d] = Release(@)]
    /\ task' = [task EXCEPT ![s][d].pc =
                    IF delay[s][d].future = "set" THEN "wait" ELSE "proc"]

\* Delay.wait resumes with the future's result: the finally clears the
\* future, the lock is released, and pipe() calls the processor.
WaitDone(s, d) ==
    /\ task[s][d].pc = "wait"
    /\ ~task[s][d].must_cancel
    /\ delay[s][d].future \in {"set", "fired"}
    /\ delay' = [delay EXCEPT ![s][d].future = None]
    /\ lock' = [lock EXCEPT ![s][d] = Release(@)]
    /\ task' = [task EXCEPT ![s][d].pc = "proc"]

\* The end of the wait of a chunk whose bytes are not followed.
PipeWaitDone(s, d) ==
    /\ WaitDone(s, d)
    /\ UNCHANGED <<proxy, conn, processors, closing, gathers, pclose, scopes,
                   raised, loop_errors, direct, failed,
                   pstart, callers, now, data>>

\* A loop that would go back to reader.read after writer.write whatever
\* the buffered flag says.
WriteChunkNeverDrains(s, d) ==
    /\ task[s][d].pc = "proc"
    /\ ~task[s][d].must_cancel
    /\ task' = [task EXCEPT ![s][d].pc = "read"]

\* The processor returned: writer.write, and writer.drain() when the
\* Session is not buffered; the Session has the buffered flag of the proxy
\* that created it.
WriteChunk(s, d) ==
    /\ task[s][d].pc = "proc"
    /\ ~task[s][d].must_cancel
    /\ task' = [task EXCEPT ![s][d].pc =
                    IF proxy.buffered THEN "read" ELSE "drain"]

\* The write of a chunk whose bytes are not followed.
PipeWrite(s, d) ==
    /\ WriteChunk(s, d)
    /\ UNCHANGED <<proxy, conn, delay, processors, closing, gathers, pclose,
                   scopes, raised, loop_errors, direct, failed,
                   pstart, lock, callers, now, data>>

\* writer.drain() returned.
PipeDrained(s, d) ==
    /\ task[s][d].pc = "drain"
    /\ ~task[s][d].must_cancel
    /\ task' = [task EXCEPT ![s][d].pc = "read"]
    /\ UNCHANGED <<proxy, conn, delay, processors, closing, gathers, pclose,
                   scopes, raised, loop_errors, direct, failed,
                   pstart, lock, callers, now, data>>

\* The exception an await of the try raises where the task is suspended:
\* the processor's own, or the connection's from read and drain.
Raises(tk) == IF tk.pc = "proc" THEN ProcessorError ELSE ConnectionError

\* reader.read, the processor or writer.drain raises: the exception leaves
\* the try through the finally, which closes the destination writer.
PipeRaises(s, d) ==
    /\ task[s][d].pc \in {"read", "proc", "drain"}
    /\ ~task[s][d].must_cancel
    /\ task' = [task EXCEPT ![s][d] = CloseWriter(@, Raises(@))]
    /\ UNCHANGED <<proxy, conn, delay, processors, closing, gathers, pclose,
                   scopes, raised, loop_errors, direct, failed, pstart, lock,
                   callers, now, data>>

\* writer.wait_closed() returned: the finally is over and the task ends,
\* with the exception that entered the finally if there was one.
PipeClosed(s, d) ==
    /\ task[s][d].pc = "close_writer"
    /\ ~task[s][d].must_cancel
    /\ task' = [task EXCEPT ![s][d].pc =
                    IF task[s][d].exc = None THEN "finished"
                    ELSE IF task[s][d].exc = CancelledError THEN "cancelled"
                    ELSE "failed"]
    /\ UNCHANGED <<proxy, conn, delay, processors, closing, gathers, pclose,
                   scopes, raised, loop_errors, direct, failed,
                   pstart, lock, callers, now, data>>

\* The step of a task whose cancellation was requested: CancelledError is
\* thrown into the coroutine where it is suspended.  A coroutine that has
\* not started ends at once, outside the try; inside the try the finally
\* runs (and Delay.wait's finally clears the future and its lock is
\* released, or Lock.acquire gives up its place); in the finally's own
\* await the task ends.
TaskCancelled(tk) ==
    IF tk.pc \in InTry THEN CloseWriter(tk, CancelledError)
    ELSE [tk EXCEPT !.pc = "cancelled", !.must_cancel = FALSE,
                    !.exc = CancelledError]

PipeCancelled(s, d) ==
    /\ task[s][d].must_cancel
    /\ ~TaskDone(task[s][d])
    /\ task' = [task EXCEPT ![s][d] = TaskCancelled(@)]
    /\ delay' = IF task[s][d].pc = "wait"
                THEN [delay EXCEPT ![s][d].future = None] ELSE delay
    /\ lock' = IF task[s][d].pc = "wait"
               THEN [lock EXCEPT ![s][d] = Release(@)]
               ELSE IF task[s][d].pc = "lock"
               THEN [lock EXCEPT ![s][d] = Abandon(@, Pipe)]
               ELSE lock
    /\ UNCHANGED <<proxy, conn, processors, closing, gathers, pclose, scopes,
                   raised, loop_errors, direct, failed,
                   pstart, callers, now, data>>

\* ------------------------------------------------------------- callers

\* The Delay a caller is in the wait() of.
On(c, s, d) == callers[c].on = <<s, d>>

\* A wait() with no test of the timeout: it takes the lock and arms the
\* timer whatever the timeout is.
CallWaitTakesTheLock(c, s, d) ==
    /\ callers[c].pc = "idle"
    /\ conn[s] # "none"
    /\ lock' = [lock EXCEPT ![s][d] = Acquire(@, Caller(c))]
    /\ IF LockFree(lock[s][d])
       THEN /\ delay' = [delay EXCEPT ![s][d] = DelayWait(@)]
            /\ callers' = [callers EXCEPT ![c].pc = "wait",
                                          ![c].on = <<s, d>>]
       ELSE /\ callers' = [callers EXCEPT ![c].pc = "lock",
                                          ![c].on = <<s, d>>]
            /\ UNCHANGED delay
    /\ UNCHANGED <<proxy, conn, processors, task, closing, gathers, pclose,
                   scopes, raised, loop_errors, direct, failed, pstart, now,
                   data>>

\* A task other than pipe() calls wait() on a Delay of a Session: with a
\* timeout of zero it returns, else it acquires the lock, or queues for it.
CallWait(c, s, d) ==
    /\ callers[c].pc = "idle"
    /\ conn[s] # "none"
    /\ IF delay[s][d].timeout = 0
       THEN /\ callers' = [callers EXCEPT ![c].pc = "returned", ![c].on = <<s, d>>]
            /\ UNCHANGED <<delay, lock>>
       ELSE /\ lock' = [lock EXCEPT ![s][d] = Acquire(@, Caller(c))]
            /\ IF LockFree(lock[s][d])
               THEN /\ delay' = [delay EXCEPT ![s][d] = DelayWait(@)]
                    /\ callers' = [callers EXCEPT ![c].pc = "wait",
                                                  ![c].on = <<s, d>>]
               ELSE /\ callers' = [callers EXCEPT ![c].pc = "lock",
                                                  ![c].on = <<s, d>>]
                    /\ UNCHANGED delay
    /\ UNCHANGED <<proxy, conn, processors, task, closing, gathers, pclose,
                   scopes, raised, loop_errors, direct, failed, pstart, now,
                   data>>

\* Lock.acquire of a caller resumes: the lock is its own, the timer is
\* armed and wait suspends on the future.
CallerLockAcquired(c) ==
    /\ callers[c].pc = "lock"
    /\ ~callers[c].must_cancel
    /\ \E s \in Sessions, d \in Dirs :
          /\ On(c, s, d)
          /\ Woken(lock[s][d], Caller(c))
          /\ lock' = [lock EXCEPT ![s][d] = Resume(@, Caller(c))]
          /\ delay' = [delay EXCEPT ![s][d] = DelayWait(@)]
    /\ callers' = [callers EXCEPT ![c].pc = "wait"]
    /\ UNCHANGED <<proxy, conn, processors, task, closing, gathers, pclose,
                   scopes, raised, loop_errors, direct, failed, pstart, now,
                   data>>

\* The wait of a caller resumes with the future's result: the finally
\* clears the future, the lock is released and wait returns.
CallerWaitDone(c) ==
    /\ callers[c].pc = "wait"
    /\ ~callers[c].must_cancel
    /\ \E s \in Sessions, d \in Dirs :
          /\ On(c, s, d)
          /\ delay[s][d].future \in {"set", "fired"}
          /\ delay' = [delay EXCEPT ![s][d].future = None]
          /\ lock' = [lock EXCEPT ![s][d] = Release(@)]
    /\ callers' = [callers EXCEPT ![c].pc = "returned"]
    /\ UNCHANGED <<proxy, conn, processors, task, closing, gathers, pclose,
                   scopes, raised, loop_errors, direct, failed, pstart, now,
                   data>>

\* Task.cancel() of a caller suspended in wait(): the future it awaits is
\* cancelled unless it is done.
CancelCaller(c) ==
    /\ callers[c].pc \in {"lock", "wait"}
    /\ ~callers[c].must_cancel
    /\ callers' = [callers EXCEPT ![c].must_cancel = TRUE]
    /\ \E s \in Sessions, d \in Dirs :
          /\ On(c, s, d)
          /\ IF callers[c].pc = "lock"
             THEN /\ lock' = [lock EXCEPT ![s][d] = CancelWaiter(@, Caller(c))]
                  /\ UNCHANGED delay
             ELSE /\ delay' = [delay EXCEPT ![s][d].future =
                                  IF @ = "pending" THEN "cancelled" ELSE @]
                  /\ UNCHANGED lock
    /\ UNCHANGED <<proxy, conn, processors, task, closing, gathers, pclose,
                   scopes, raised, loop_errors, direct, failed, pstart, now,
                   data>>

\* The step of a cancelled caller: CancelledError is thrown into wait(),
\* whose finally clears the future and whose lock is released, or into
\* Lock.acquire, which gives up its place.
CallerCancelled(c) ==
    /\ callers[c].must_cancel
    /\ callers[c].pc \in {"lock", "wait"}
    /\ callers' = [callers EXCEPT ![c].pc = "cancelled", ![c].must_cancel = FALSE]
    /\ \E s \in Sessions, d \in Dirs :
          /\ On(c, s, d)
          /\ IF callers[c].pc = "lock"
             THEN /\ lock' = [lock EXCEPT ![s][d] = Abandon(@, Caller(c))]
                  /\ UNCHANGED delay
             ELSE /\ delay' = [delay EXCEPT ![s][d].future = None]
                  /\ lock' = [lock EXCEPT ![s][d] = Release(@)]
    /\ UNCHANGED <<proxy, conn, processors, task, closing, gathers, pclose,
                   scopes, raised, loop_errors, direct, failed, pstart, now,
                   data>>

\* ------------------------------------------------------------- bytes

Bytes == {"a", "b"}
Payloads == UNION {[1..n -> Bytes] : n \in 1..MaxPayload}

\* The bytes of the processor `lambda _: processed_request`.
processed_request == <<"x", "y">>

Min(a, b) == IF a < b THEN a ELSE b
Take(q, n) == SubSeq(q, 1, n)
Drop(q, n) == SubSeq(q, n + 1, Len(q))

\* chunk[::-1]
Reverse(chunk) == [i \in 1..Len(chunk) |-> chunk[Len(chunk) + 1 - i]]

\* The bytes of a sequence of chunks, in order.
RECURSIVE Join(_)
Join(chunks) ==
    IF chunks = <<>> THEN <<>> ELSE Head(chunks) \o Join(Tail(chunks))

\* What a processor of a Session returns for a chunk: _blank_processor
\* returns it, the two callables of the example reverse it and replace it.
Apply(processor, chunk) ==
    IF processor = BlankProcessor THEN chunk
    ELSE IF processor = Awaitable("reverse") THEN Reverse(chunk)
    ELSE processed_request

\* The client writes a payload to its connection to the proxy.
ClientSend(s, payload) ==
    /\ conn[s] # "none"
    /\ data[s].read.sent = <<>>
    /\ data[s].read.eof = "open"
    /\ data' = [data EXCEPT ![s].read.sent = payload, ![s].read.wire = payload,
                            ![s].read.sent_at = now]
    /\ UNCHANGED <<proxy, conn, delay, processors, task, closing, gathers,
                   pclose, scopes, raised, loop_errors, direct, failed,
                   pstart, lock, callers, now>>

\* The next n bytes on the wire reach the buffer of the source reader.
Arrive(s, d, n) ==
    /\ n \in 1..Len(data[s][d].wire)
    /\ data' = [data EXCEPT ![s][d].wire = Drop(@, n),
                            ![s][d].buf = @ \o Take(data[s][d].wire, n)]
    /\ UNCHANGED <<proxy, conn, delay, processors, task, closing, gathers,
                   pclose, scopes, raised, loop_errors, direct, failed,
                   pstart, lock, callers, now>>

\* reader.read(self.chunk_size) returns what the reader has buffered, at
\* most chunk_size bytes of it.  The processor is looked up when pipe()
\* calls it: here with no delay, else when the wait is over.  The timer is
\* armed here when the lock of the Delay is free.
ForwardRead(s, d) ==
    /\ data[s][d].buf # <<>>
    /\ ReadChunk(s, d)
    /\ LET n == Min(Len(data[s][d].buf), chunk_size)
           chunk == Take(data[s][d].buf, n)
       IN data' = [data EXCEPT
                     ![s][d].buf = Drop(@, n),
                     ![s][d].held = chunk,
                     ![s][d].reads = Append(@, chunk),
                     ![s][d].using = IF delay[s][d].timeout > 0 THEN <<>>
                                     ELSE processors[s][d],
                     ![s][d].read_at = now,
                     ![s][d].due = now + delay[s][d].timeout]
    /\ UNCHANGED <<proxy, conn, processors, closing, gathers, pclose, scopes,
                   raised, loop_errors, direct, failed, pstart, callers, now>>

\* The wait of the held chunk is over: pipe() calls the processor.
ForwardWaitDone(s, d) ==
    /\ WaitDone(s, d)
    /\ data' = [data EXCEPT ![s][d].using = processors[s][d],
                            ![s][d].due = 0]
    /\ UNCHANGED <<proxy, conn, processors, closing, gathers, pclose, scopes,
                   raised, loop_errors, direct, failed, pstart, callers, now>>

\* A loop that would write the chunk as it was read.
ProcessedUnchanged(st) == st.held

\* What the processor returns for the held chunk.
Processed(st) == Apply(st.using, st.held)

\* A writer that would put the chunk before the ones already written.
WrittenFirst(st) ==
    [st EXCEPT !.writes = <<Processed(st)>> \o @, !.wrote = <<st.held>> \o @,
               !.held = <<>>, !.using = <<>>]

\* writer.write(...) of the processed chunk.
Written(st) ==
    [st EXCEPT !.writes = Append(@, Processed(st)), !.wrote = Append(@, st.held),
               !.held = <<>>, !.using = <<>>]

\* The processor returned and the chunk is written to the destination.
ForwardWrite(s, d) ==
    /\ data[s][d].held # <<>>
    /\ WriteChunk(s, d)
    /\ data' = [data EXCEPT ![s][d] = Written(@)]
    /\ UNCHANGED <<proxy, conn, delay, processors, closing, gathers, pclose,
                   scopes, raised, loop_errors, direct, failed, pstart, lock,
                   callers, now>>

\* The echo target writes back the next chunk the proxy wrote to it.
EchoTarget(s) ==
    /\ data[s].read.echoed < Len(data[s].read.writes)
    /\ data[s].write.eof = "open"
    /\ LET chunk == data[s].read.writes[data[s].read.echoed + 1]
       IN data' = [data EXCEPT ![s].read.echoed = @ + 1,
                               ![s].write.sent = @ \o chunk,
                               ![s].write.wire = @ \o chunk]
    /\ UNCHANGED <<proxy, conn, delay, processors, task, closing, gathers,
                   pclose, scopes, raised, loop_errors, direct, failed,
                   pstart, lock, callers, now>>

\* The peer a direction reads from ends its stream: the client for
\* "read", the target for "write".
SourceEnds(s, d) ==
    /\ conn[s] = "connected"
    /\ data[s][d].eof = "open"
    /\ data' = [data EXCEPT ![s][d].eof = "ended"]
    /\ UNCHANGED <<proxy, conn, delay, processors, task, closing, gathers,
                   pclose, scopes, raised, loop_errors, direct, failed,
                   pstart, lock, callers, now>>

\* The direction that reads from the connection a direction writes to:
\* connect() gives server_writer to "read" and server_reader to "write",
\* client_writer to "write" and client_reader to "read".
Other(d) == IF d = "read" THEN "write" ELSE "read"

\* writer.close() closes the transport of the connection: its reader gets
\* what it has buffered and then end-of-stream, and what was on the wire is
\* not read.
ConnectionClosed(st) ==
    [st EXCEPT !.eof = IF @ = "open" THEN "closed" ELSE @, !.wire = <<>>]

\* reader.read returns b"" (or at_eof() is true) once the buffer is empty
\* and end-of-stream was fed: the loop ends, and the finally closes the
\* destination writer, hence the connection the other loop reads from.
ForwardEOF(s, d) ==
    /\ task[s][d].pc = "read"
    /\ ~task[s][d].must_cancel
    /\ data[s][d].eof # "open"
    /\ data[s][d].wire = <<>>
    /\ data[s][d].buf = <<>>
    /\ task' = [task EXCEPT ![s][d] = CloseWriter(@, None)]
    /\ data' = [data EXCEPT ![s][Other(d)] = ConnectionClosed(@)]
    /\ UNCHANGED <<proxy, conn, delay, processors, closing, gathers, pclose,
                   scopes, raised, loop_errors, direct, failed, pstart, lock,
                   callers, now>>

\* A callable given as a processor raises for the held chunk: the
\* exception leaves the try through the finally, which closes the
\* destination writer, hence the connection the other loop reads from.
ForwardRaises(s, d) ==
    /\ task[s][d].pc = "proc"
    /\ ~task[s][d].must_cancel
    /\ data[s][d].using # BlankProcessor
    /\ task' = [task EXCEPT ![s][d] = CloseWriter(@, Raises(@))]
    /\ data' = [data EXCEPT ![s][Other(d)] = ConnectionClosed(@)]
    /\ UNCHANGED <<proxy, conn, delay, processors, closing, gathers, pclose,
                   scopes, raised, loop_errors, direct, failed, pstart, lock,
                   callers, now>>

\* The clock of the loop advances.
Tick ==
    /\ now < MaxTime
    /\ now' = now + 1
    /\ UNCHANGED <<proxy, conn, delay, processors, task, closing, gathers,
                   pclose, scopes, raised, loop_errors, direct, failed,
                   pstart, lock, callers, data>>

\* The timer of delayed_future runs resolve() when its time has come:
\* loop.call_later(timeout, resolve, future).
TimerDue(s, d) ==
    /\ now >= data[s][d].due
    /\ TimerFired(s, d)

\* ------------------------------------------------------------- close

\* The tasks of a Session that aiomisc.cancel_tasks cancels: those of
\* self.tasks that are not done.
ToCancel(s) == {d \in Dirs : task[s][d].pc # "none" /\ ~TaskDone(task[s][d])}

\* Task.cancel(): the future the task waits on is cancelled, or the
\* cancellation is kept for the task's next step.
Cancel(tk) == [tk EXCEPT !.must_cancel = TRUE]

CancelTasks(s) ==
    [d \in Dirs |-> IF d \in ToCancel(s) THEN Cancel(task[s][d]) ELSE task[s][d]]

\* The Delay futures that Task.cancel() cancels: the ones a cancelled task
\* is suspended on.
CancelWaits(s) ==
    [d \in Dirs |->
        IF d \in ToCancel(s) /\ task[s][d].pc = "wait"
                             /\ delay[s][d].future = "pending"
        THEN [delay[s][d] EXCEPT !.future = "cancelled"]
        ELSE delay[s][d]]

\* The Lock.acquire futures that Task.cancel() cancels: the ones a
\* cancelled task is suspended on.
CancelLocks(s) ==
    [d \in Dirs |->
        IF d \in ToCancel(s) /\ task[s][d].pc = "lock"
        THEN CancelWaiter(lock[s][d], Pipe) ELSE lock[s][d]]

CloseCallback(h) == <<"close", h>>

\* The two lines that end TCPProxyClient.close: set_result is scheduled with
\* call_soon, and the coroutine awaits closing, which suspends it unless
\* the future is done.
ScheduleSetResult(c, h) ==
    [c EXCEPT !.set_results = @ + 1,
              !.callbacks = IF c.state = "done" THEN @
                            ELSE Append(@, CloseCallback(h))]

\* TCPProxy.disconnect_all: one close() coroutine per client of the set,
\* each wrapped in a task by gather.
Gather == [called |-> TRUE,
           close |-> [s \in Sessions |->
                        IF s \in proxy.clients THEN "created" ELSE "absent"]]

UncalledHandles == {h \in Handles : ~gathers[h].called}

\* A gather that would end with the first exception of a close().
HandleDoneAtFirstFailure(g) ==
    /\ g.called
    /\ \/ \E s \in Sessions : g.close[s] = "raised"
       \/ \A s \in Sessions : g.close[s] \in {"absent", "returned"}

\* The future disconnect_all returned is done: every gathered close()
\* returned or raised, gather(return_exceptions=True) keeping what it
\* raised as its outcome.
HandleDone(g) ==
    g.called /\ \A s \in Sessions : g.close[s] \in {"absent", "returned", "raised"}

DisconnectAll(h) ==
    /\ h \in UncalledHandles
    /\ \A o \in UncalledHandles : h <= o
    /\ gathers' = [gathers EXCEPT ![h] = Gather]
    /\ raised' = NoError
    /\ UNCHANGED <<proxy, conn, delay, processors, task, closing, pclose,
                   scopes, loop_errors, direct, failed,
                   pstart, lock, callers, now, data>>

\* The first step of a close() task: it returns when closing is done;
\* else it cancels the tasks and awaits them, and when there is none to
\* await it goes on to schedule set_result and to await closing.
CloseStart(h, s) ==
    /\ gathers[h].close[s] = "created"
    /\ IF closing[s].state = "done"
       THEN /\ gathers' = [gathers EXCEPT ![h].close[s] = "returned"]
            /\ UNCHANGED <<task, delay, lock, closing>>
       ELSE IF ToCancel(s) # {}
       THEN /\ gathers' = [gathers EXCEPT ![h].close[s] = "cancel_tasks"]
            /\ task' = [task EXCEPT ![s] = CancelTasks(s)]
            /\ delay' = [delay EXCEPT ![s] = CancelWaits(s)]
            /\ lock' = [lock EXCEPT ![s] = CancelLocks(s)]
            /\ UNCHANGED closing
       ELSE /\ gathers' = [gathers EXCEPT ![h].close[s] = "closing"]
            /\ closing' = [closing EXCEPT ![s] = ScheduleSetResult(@, h)]
            /\ UNCHANGED <<task, delay, lock>>
    /\ UNCHANGED <<proxy, conn, processors, pclose, scopes, raised,
                   loop_errors, direct, failed,
                   pstart, callers, now, data>>

\* The close() of a Session fails: its task ends with an exception before
\* its first step is over or while it awaits the cancelled tasks.
CloseFails(h, s) ==
    /\ gathers[h].close[s] \in {"created", "cancel_tasks"}
    /\ gathers' = [gathers EXCEPT ![h].close[s] = "raised"]
    /\ UNCHANGED <<proxy, conn, delay, processors, task, closing, pclose,
                   scopes, raised, loop_errors, direct, failed, pstart, lock,
                   callers, now, data>>

\* A close() that would await the cancelled tasks themselves.
CancelTasksSurfaces(s) ==
    IF \E d \in Dirs : task[s][d].pc = "cancelled" THEN CancelledError
    ELSE NoError

\* What close() gets from its await of aiomisc.cancel_tasks(self.tasks):
\* cancel_tasks gathers the tasks it cancelled with return_exceptions=True,
\* so what they end with is a result of the gather.
CancelTasksOutcome(s) == NoError

\* The cancelled tasks are done: close() resumes, schedules set_result and
\* awaits closing.
CloseCancelled(h, s) ==
    /\ gathers[h].close[s] = "cancel_tasks"
    /\ \A d \in Dirs : TaskDone(task[s][d])
    /\ IF CancelTasksOutcome(s) = NoError
       THEN /\ gathers' = [gathers EXCEPT ![h].close[s] =
                      IF closing[s].state = "done" THEN "returned" ELSE "closing"]
            /\ closing' = [closing EXCEPT ![s] = ScheduleSetResult(@, h)]
       ELSE /\ gathers' = [gathers EXCEPT ![h].close[s] = "raised"]
            /\ UNCHANGED closing
    /\ UNCHANGED <<proxy, conn, delay, processors, task, pclose, scopes,
                   raised, loop_errors, direct, failed,
                   pstart, lock, callers, now, data>>

\* A scheduled closing.set_result(True) runs: on a future that is done it
\* raises InvalidStateError, which goes to the loop's exception handler.
SetResult(s) ==
    /\ closing[s].set_results > 0
    /\ closing' = [closing EXCEPT ![s].set_results = @ - 1, ![s].state = "done"]
    /\ loop_errors' = IF closing[s].state = "done"
                      THEN loop_errors \cup {InvalidStateError} ELSE loop_errors
    /\ UNCHANGED <<proxy, conn, delay, processors, task, gathers, pclose,
                   scopes, raised, direct, failed,
                   pstart, lock, callers, now, data>>

\* The next done callback of closing runs: the lambda of _handle_client
\* removes the client from the set, a waiting close() returns.
ClosingCallback(s) ==
    /\ closing[s].state = "done"
    /\ closing[s].callbacks # <<>>
    /\ closing' = [closing EXCEPT ![s].callbacks = Tail(@)]
    /\ IF Head(closing[s].callbacks) = RemoveCallback
       THEN /\ proxy' = [proxy EXCEPT !.clients = @ \ {s}]
            /\ UNCHANGED gathers
       ELSE /\ gathers' = [gathers EXCEPT
                  ![Head(closing[s].callbacks)[2]].close[s] = "returned"]
            /\ UNCHANGED proxy
    /\ UNCHANGED <<conn, delay, processors, task, pclose, scopes, raised,
                   loop_errors, direct, failed,
                   pstart, lock, callers, now, data>>

\* ------------------------------------------------------------- TCPProxy.close

\* The inner close() after its await of disconnect_all(): it returns when
\* server is None, else it calls server.close(), after which the listener
\* accepts nothing, and awaits server.wait_closed().
StopServer(p) == IF p.server = None THEN p ELSE [p EXCEPT !.server = "closed"]

AfterDisconnect(pc_) == IF proxy.server = None THEN "returned" ELSE "wait_closed"

\* TCPProxy.close is called: disconnect_all() gathers the clients, and with
\* no client its future is done, so the coroutine goes on without suspending.
ProxyClose(h) ==
    /\ pclose.pc \in {"idle", "returned"}
    /\ h \in UncalledHandles
    /\ \A o \in UncalledHandles : h <= o
    /\ gathers' = [gathers EXCEPT ![h] = Gather]
    /\ IF proxy.clients = {}
       THEN /\ proxy' = StopServer(proxy)
            /\ pclose' = [pclose EXCEPT !.pc = AfterDisconnect(@), !.handle = h,
                              !.completed = IF proxy.server = None
                                            THEN @ + 1 ELSE @]
       ELSE /\ pclose' = [pclose EXCEPT !.pc = "disconnect_all", !.handle = h]
            /\ UNCHANGED proxy
    /\ raised' = NoError
    /\ UNCHANGED <<conn, delay, processors, task, closing, scopes,
                   loop_errors, direct, failed,
                   pstart, lock, callers, now, data>>

\* The future of disconnect_all() is done: close() resumes.
ProxyCloseDisconnected ==
    /\ pclose.pc = "disconnect_all"
    /\ HandleDone(gathers[pclose.handle])
    /\ proxy' = StopServer(proxy)
    /\ pclose' = [pclose EXCEPT !.pc = AfterDisconnect(@),
                      !.completed = IF proxy.server = None THEN @ + 1 ELSE @]
    /\ UNCHANGED <<conn, delay, processors, task, closing, gathers, scopes,
                   raised, loop_errors, direct, failed,
                   pstart, lock, callers, now, data>>

\* server.wait_closed() returned: close() returns.
ProxyCloseReturn ==
    /\ pclose.pc = "wait_closed"
    /\ pclose' = [pclose EXCEPT !.pc = "returned", !.completed = @ + 1]
    /\ UNCHANGED <<proxy, conn, delay, processors, task, closing, gathers,
                   scopes, raised, loop_errors, direct, failed,
                   pstart, lock, callers, now, data>>

\* ------------------------------------------------------------- specification

\* The whole program.
Next ==
    \/ StartCall
    \/ StartTimeout
    \/ ProxyStart
    \/ \E s \in Sessions : HandleClient(s)
    \/ \E s \in Sessions : ConnectDone(s)
    \/ \E s \in Sessions : ConnectFailed(s)
    \/ \E r, w \in DelayInputs : SetDelay(r, w)
    \/ \E r, w \in ProcInputs : SetContentProcessors(r, w)
    \/ \E s \in Sessions, d \in Dirs, v \in DelayInputs : SessionSetTimeout(s, d, v)
    \/ \E s \in Sessions, d \in Dirs, v \in ProcInputs : SessionSetProcessor(s, d, v)
    \/ \E k \in Scopes, r, w \in DelayInputs : SlowdownEnter(k, r, w)
    \/ \E k \in Scopes, b \in BOOLEAN : SlowdownExit(k, b)
    \/ \E s \in Sessions, d \in Dirs : PipeStart(s, d)
    \/ \E s \in Sessions, d \in Dirs : PipeRead(s, d)
    \/ \E s \in Sessions, d \in Dirs : PipeEOF(s, d)
    \/ \E s \in Sessions, d \in Dirs : PipeLockAcquired(s, d)
    \/ \E c \in Callers, s \in Sessions, d \in Dirs : CallWait(c, s, d)
    \/ \E c \in Callers : CallerLockAcquired(c)
    \/ \E c \in Callers : CallerWaitDone(c)
    \/ \E c \in Callers : CancelCaller(c)
    \/ \E c \in Callers : CallerCancelled(c)
    \/ \E s \in Sessions, payload \in Payloads : ClientSend(s, payload)
    \/ \E s \in Sessions, d \in Dirs, n \in 1..MaxPayload : Arrive(s, d, n)
    \/ \E s \in Sessions, d \in Dirs : ForwardRead(s, d)
    \/ \E s \in Sessions, d \in Dirs : ForwardWaitDone(s, d)
    \/ \E s \in Sessions, d \in Dirs : ForwardWrite(s, d)
    \/ \E s \in Sessions : EchoTarget(s)
    \/ \E h \in Handles, s \in Sessions : CloseFails(h, s)
    \/ \E s \in Sessions, d \in Dirs : SourceEnds(s, d)
    \/ \E s \in Sessions, d \in Dirs : ForwardEOF(s, d)
    \/ \E s \in Sessions, d \in Dirs : ForwardRaises(s, d)
    \/ \E s \in Sessions, d \in Dirs : TimerDue(s, d)
    \/ Tick
    \/ \E s \in Sessions, d \in Dirs : TimerFired(s, d)
    \/ \E s \in Sessions, d \in Dirs : PipeWaitDone(s, d)
    \/ \E s \in Sessions, d \in Dirs : PipeWrite(s, d)
    \/ \E s \in Sessions, d \in Dirs : PipeDrained(s, d)
    \/ \E s \in Sessions, d \in Dirs : PipeRaises(s, d)
    \/ \E s \in Sessions, d \in Dirs : PipeClosed(s, d)
    \/ \E s \in Sessions, d \in Dirs : PipeCancelled(s, d)
    \/ \E h \in Handles : DisconnectAll(h)
    \/ \E h \in Handles, s \in Sessions : CloseStart(h, s)
    \/ \E h \in Handles, s \in Sessions : CloseCancelled(h, s)
    \/ \E s \in Sessions : SetResult(s)
    \/ \E s \in Sessions : ClosingCallback(s)
    \/ \E h \in Handles : ProxyClose(h)
    \/ ProxyCloseDisconnected
    \/ ProxyCloseReturn

Spec == Init /\ [][Next]_vars

\* A proxy constructed with the default buffered=True.
InitDefault == Init /\ proxy.buffered

\* Delay values of the configuration scenarios: a negative one, zero and a
\* positive one.
ConfigDelays == {0 - 1, 0, MaxDelay}

\* Accepts, seen from the configuration: the client enters the set and is
\* seeded; the outcome of its connect changes nothing a setter reads.
Accepts ==
    \/ StartCall
    \/ ProxyStart
    \/ \E s \in Sessions : HandleClient(s)

\* The close() of a Session from disconnect_all() to the removal from the
\* set.
Closes ==
    \/ \E h \in Handles, s \in Sessions : CloseStart(h, s)
    \/ \E h \in Handles, s \in Sessions : CloseCancelled(h, s)
    \/ \E s \in Sessions, d \in Dirs : PipeCancelled(s, d)
    \/ \E s \in Sessions : SetResult(s)
    \/ \E s \in Sessions : ClosingCallback(s)

\* The pipe() tasks with no data in flight: they start, wait in
\* reader.read, and end at end-of-stream.
IdlePipes ==
    \/ \E s \in Sessions, d \in Dirs : PipeStart(s, d)
    \/ \E s \in Sessions, d \in Dirs : PipeEOF(s, d)
    \/ \E s \in Sessions, d \in Dirs : PipeClosed(s, d)

\* Scenario: start() calls that bind in time or time out, with accepts and
\* set_delay calls around them.
NextStart ==
    \/ Accepts
    \/ StartTimeout
    \/ \E r, w \in ConfigDelays : SetDelay(r, w)

SpecStart == InitDefault /\ [][NextStart]_vars

\* Scenario: accepts, set_delay and set_content_processors in every order.
NextSeed ==
    \/ Accepts
    \/ \E r, w \in ConfigDelays : SetDelay(r, w)
    \/ \E r, w \in ProcInputs : SetContentProcessors(r, w)

SpecSeed == InitDefault /\ [][NextSeed]_vars

\* Scenario: processors set on the proxy and on single sessions.
NextProcessors ==
    \/ Accepts
    \/ \E r, w \in ProcInputs : SetContentProcessors(r, w)
    \/ \E s \in Sessions, d \in Dirs, v \in ProcInputs : SessionSetProcessor(s, d, v)

SpecProcessors == InitDefault /\ [][NextProcessors]_vars

\* Scenario: slowdown() scopes, entered and left in every order, with
\* set_delay calls and accepts in between.
NextSlowdown ==
    \/ Accepts
    \/ \E r, w \in ConfigDelays : SetDelay(r, w)
    \/ \E k \in Scopes, r, w \in ConfigDelays : SlowdownEnter(k, r, w)
    \/ \E k \in Scopes, b \in BOOLEAN : SlowdownExit(k, b)

SpecSlowdown == InitDefault /\ [][NextSlowdown]_vars

\* Scenario: delays set on the proxy and on the Delay of a session.
NextDelays ==
    \/ Accepts
    \/ \E r, w \in ConfigDelays : SetDelay(r, w)
    \/ \E s \in Sessions, d \in Dirs, v \in ConfigDelays : SessionSetTimeout(s, d, v)

SpecDelays == InitDefault /\ [][NextDelays]_vars

\* Scenario: chunks going through the Delay of the pipe() tasks while the
\* timeouts are assigned.
NextWait ==
    \/ Accepts
    \/ \E s \in Sessions : ConnectDone(s)
    \/ \E r, w \in DelayInputs : SetDelay(r, w)
    \/ \E s \in Sessions, d \in Dirs : PipeStart(s, d)
    \/ \E s \in Sessions, d \in Dirs : PipeRead(s, d)
    \/ \E s \in Sessions, d \in Dirs : TimerFired(s, d)
    \/ \E s \in Sessions, d \in Dirs : PipeWaitDone(s, d)
    \/ \E s \in Sessions, d \in Dirs : PipeWrite(s, d)

SpecWait == InitDefault /\ [][NextWait]_vars

\* Scenario: the life of the sessions under disconnect_all().
NextLife ==
    \/ Accepts
    \/ \E s \in Sessions : ConnectDone(s)
    \/ \E s \in Sessions : ConnectFailed(s)
    \/ IdlePipes
    \/ \E h \in Handles : DisconnectAll(h)
    \/ Closes

SpecLife == InitDefault /\ [][NextLife]_vars

\* Scenario: the life of the sessions under TCPProxy.close().
NextClose ==
    \/ Accepts
    \/ \E s \in Sessions : ConnectDone(s)
    \/ \E s \in Sessions : ConnectFailed(s)
    \/ IdlePipes
    \/ \E h \in Handles : ProxyClose(h)
    \/ ProxyCloseDisconnected
    \/ ProxyCloseReturn
    \/ Closes

SpecClose == InitDefault /\ [][NextClose]_vars

\* Every step of the pipe() tasks of Session s.
Pipes(s) ==
    \/ \E d \in Dirs : PipeStart(s, d)
    \/ \E d \in Dirs : PipeRead(s, d)
    \/ \E d \in Dirs : PipeEOF(s, d)
    \/ \E d \in Dirs : TimerFired(s, d)
    \/ \E d \in Dirs : PipeWaitDone(s, d)
    \/ \E d \in Dirs : PipeWrite(s, d)
    \/ \E d \in Dirs : PipeDrained(s, d)
    \/ \E d \in Dirs : PipeRaises(s, d)
    \/ \E d \in Dirs : PipeClosed(s, d)
    \/ \E d \in Dirs : PipeCancelled(s, d)

\* Scenario: one Session, buffered or not, whose pipe() tasks go through
\* every step, with delays set and close() called at any point.
NextPipe ==
    \/ StartCall
    \/ ProxyStart
    \/ HandleClient(1)
    \/ ConnectDone(1)
    \/ \E r, w \in {0, MaxDelay} : SetDelay(r, w)
    \/ Pipes(1)
    \/ DisconnectAll(1)
    \/ CloseStart(1, 1)
    \/ CloseCancelled(1, 1)
    \/ SetResult(1)
    \/ ClosingCallback(1)

SpecPipe == Init /\ [][NextPipe]_vars

\* Scenario: one client of a proxy whose processors were configured
\* before it connected sends a payload through the proxy to an echo
\* target.
NextEcho ==
    \/ StartCall
    \/ ProxyStart
    \/ \E r, w \in ProcInputs : Unaccepted = Sessions /\ SetContentProcessors(r, w)
    \/ HandleClient(1)
    \/ ConnectDone(1)
    \/ \E payload \in Payloads : ClientSend(1, payload)
    \/ \E d \in Dirs, n \in 1..MaxPayload : Arrive(1, d, n)
    \/ \E d \in Dirs : PipeStart(1, d)
    \/ \E d \in Dirs : ForwardRead(1, d)
    \/ \E d \in Dirs : ForwardWrite(1, d)
    \/ EchoTarget(1)

SpecEcho == InitDefault /\ [][NextEcho]_vars

\* The payloads of each length whose bytes are all the same: when a chunk
\* is written does not depend on its bytes.
Lengths == {[i \in 1..n |-> "a"] : n \in 1..MaxPayload}

\* Scenario: the payload of one client goes to the echo target and back
\* through the delays that were set before it connected, as time passes.
NextTimed ==
    \/ StartCall
    \/ ProxyStart
    \/ \E r, w \in 0..MaxDelay : Unaccepted = Sessions /\ SetDelay(r, w)
    \/ HandleClient(1)
    \/ ConnectDone(1)
    \/ \E payload \in Lengths : ClientSend(1, payload)
    \/ \E d \in Dirs, n \in 1..MaxPayload : Arrive(1, d, n)
    \/ \E d \in Dirs : PipeStart(1, d)
    \/ \E d \in Dirs : ForwardRead(1, d)
    \/ \E d \in Dirs : TimerDue(1, d)
    \/ \E d \in Dirs : ForwardWaitDone(1, d)
    \/ \E d \in Dirs : ForwardWrite(1, d)
    \/ EchoTarget(1)
    \/ Tick

SpecTimed == InitDefault /\ [][NextTimed]_vars

\* Scenario: the payload of one client goes to the echo target and back
\* while set_delay and set_content_processors are called.
NextForward ==
    \/ StartCall
    \/ ProxyStart
    \/ \E v \in {0, MaxDelay} : SetDelay(v, v)
    \/ \E v \in {None, "reverse"} : SetContentProcessors(v, v)
    \/ HandleClient(1)
    \/ ConnectDone(1)
    \/ \E payload \in Payloads : ClientSend(1, payload)
    \/ \E d \in Dirs, n \in 1..MaxPayload : Arrive(1, d, n)
    \/ \E d \in Dirs : PipeStart(1, d)
    \/ \E d \in Dirs : ForwardRead(1, d)
    \/ \E d \in Dirs : TimerFired(1, d)
    \/ \E d \in Dirs : ForwardWaitDone(1, d)
    \/ \E d \in Dirs : ForwardWrite(1, d)
    \/ EchoTarget(1)

SpecForward == InitDefault /\ [][NextForward]_vars

\* Scenario: the read Delay of one Session with its pipe() task and other
\* callers of wait(), while the timeout is assigned and tasks are cancelled.
NextLock ==
    \/ StartCall
    \/ ProxyStart
    \/ HandleClient(1)
    \/ ConnectDone(1)
    \/ \E v \in {0, MaxDelay} : SetDelay(v, v)
    \/ PipeStart(1, "read")
    \/ PipeRead(1, "read")
    \/ PipeLockAcquired(1, "read")
    \/ TimerFired(1, "read")
    \/ PipeWaitDone(1, "read")
    \/ PipeWrite(1, "read")
    \/ \E d \in Dirs : PipeCancelled(1, d)
    \/ \E d \in Dirs : PipeClosed(1, d)
    \/ \E c \in Callers : CallWait(c, 1, "read")
    \/ \E c \in Callers : CallerLockAcquired(c)
    \/ \E c \in Callers : CallerWaitDone(c)
    \/ \E c \in Callers : CancelCaller(c)
    \/ \E c \in Callers : CallerCancelled(c)
    \/ DisconnectAll(1)
    \/ CloseStart(1, 1)

SpecLock == InitDefault /\ [][NextLock]_vars

\* Scenario: the chunks of one client on their way to the target while
\* set_delay is called and time passes, or does not.  The event loop runs
\* the steps it has scheduled: the task whose future got its result, and the
\* return of the processor.  Nothing makes the clock advance.
NextPreempt ==
    \/ StartCall
    \/ ProxyStart
    \/ \E v \in 0..MaxDelay : SetDelay(v, v)
    \/ HandleClient(1)
    \/ ConnectDone(1)
    \/ \E payload \in Lengths : ClientSend(1, payload)
    \/ \E n \in 1..MaxPayload : Arrive(1, "read", n)
    \/ PipeStart(1, "read")
    \/ ForwardRead(1, "read")
    \/ TimerDue(1, "read")
    \/ ForwardWaitDone(1, "read")
    \/ ForwardWrite(1, "read")
    \/ Tick

FairPreempt ==
    /\ InitDefault
    /\ [][NextPreempt]_vars
    /\ WF_vars(ForwardWaitDone(1, "read"))
    /\ WF_vars(ForwardWrite(1, "read"))

\* Scenario: one Session whose close() nobody calls, while its peers send,
\* end their streams, and a processor raises.
NextEnds ==
    \/ StartCall
    \/ ProxyStart
    \/ \E v \in {None, "reverse"} : Unaccepted = Sessions /\ SetContentProcessors(v, v)
    \/ HandleClient(1)
    \/ ConnectDone(1)
    \/ \E payload \in Payloads : ClientSend(1, payload)
    \/ \E d \in Dirs, n \in 1..MaxPayload : Arrive(1, d, n)
    \/ \E d \in Dirs : PipeStart(1, d)
    \/ \E d \in Dirs : ForwardRead(1, d)
    \/ \E d \in Dirs : ForwardWrite(1, d)
    \/ EchoTarget(1)
    \/ \E d \in Dirs : SourceEnds(1, d)
    \/ \E d \in Dirs : ForwardEOF(1, d)
    \/ \E d \in Dirs : ForwardRaises(1, d)
    \/ \E d \in Dirs : PipeClosed(1, d)

SpecEnds == InitDefault /\ [][NextEnds]_vars

\* Scenario: one Session whose pipe() tasks are cancelled at any of their
\* steps by disconnect_all() or by TCPProxy.close().
NextCancel ==
    \/ StartCall
    \/ ProxyStart
    \/ HandleClient(1)
    \/ ConnectDone(1)
    \/ \E v \in {0, MaxDelay} : SetDelay(v, v)
    \/ Pipes(1)
    \/ DisconnectAll(1)
    \/ ProxyClose(1)
    \/ ProxyCloseDisconnected
    \/ ProxyCloseReturn
    \/ CloseStart(1, 1)
    \/ CloseCancelled(1, 1)
    \/ SetResult(1)
    \/ ClosingCallback(1)

SpecCancel == Init /\ [][NextCancel]_vars

\* Scenario: disconnect_all(), called directly and by TCPProxy.close(),
\* over sessions whose close() may fail.
NextGather ==
    \/ Accepts
    \/ \E s \in Sessions : ConnectDone(s)
    \/ DisconnectAll(1)
    \/ ProxyClose(1)
    \/ ProxyCloseDisconnected
    \/ ProxyCloseReturn
    \/ Closes
    \/ \E s \in Sessions : CloseFails(1, s)

SpecGather == InitDefault /\ [][NextGather]_vars

\* Scenario: sessions whose close() nobody calls; the pipe() tasks forward
\* chunks and end at end-of-stream.  The event loop runs every step it has
\* scheduled: the first step of a task, the return of the processor, the
\* end of wait_closed.  Reads and accepts depend on the peers.
NextNatural ==
    \/ Accepts
    \/ \E s \in Sessions : ConnectDone(s)
    \/ \E s \in Sessions : ConnectFailed(s)
    \/ IdlePipes
    \/ \E s \in Sessions, d \in Dirs : PipeRead(s, d)
    \/ \E s \in Sessions, d \in Dirs : PipeWrite(s, d)

LoopFairness ==
    \A s \in Sessions, d \in Dirs :
        /\ WF_vars(PipeStart(s, d))
        /\ WF_vars(PipeWrite(s, d))
        /\ WF_vars(PipeClosed(s, d))

FairNatural == InitDefault /\ [][NextNatural]_vars /\ LoopFairness

\* ------------------------------------------------------------- claims

\* What a Session holds when it follows the proxy's defaults.
FollowsDefaults(s) ==
    /\ delay[s].read.timeout = proxy.read_delay
    /\ delay[s].write.timeout = proxy.write_delay
    /\ processors[s].read = ProcessorSetter(proxy.read_processor)
    /\ processors[s].write = ProcessorSetter(proxy.write_processor)

\* C1: after any interleaving of accepts with set_delay and
\* set_content_processors calls none of which raised, every Session of
\* the active set has the timeouts and the processors of the proxy's
\* current defaults.
C1_ActiveSessionsFollowDefaults ==
    ~failed => \A s \in proxy.clients : FollowsDefaults(s)

\* C8 as stated: a processor assigned on the Session itself stays the
\* Session's processor across every later call of set_content_processors.
C8_OverrideWins ==
    \A s \in proxy.clients, d \in Dirs :
        direct[s][d] # Never => processors[s][d] = direct[s][d]

\* C8 amended: a call of set_content_processors gives every Session of
\* the active set the processors of the call, the Sessions with a processor
\* of their own included; a processor assigned on the Session stays until
\* that next call.
C8_ProxyCallOverwrites ==
    [][/\ \A r, w \in ProcInputs :
            (/\ proxy'.read_processor = r /\ proxy'.write_processor = w
             /\ SetContentProcessors(r, w)) =>
                \A s \in proxy.clients :
                    processors'[s] = [read |-> ProcessorSetter(r),
                                      write |-> ProcessorSetter(w)]
       /\ \A s \in Sessions, d \in Dirs :
            (/\ direct[s][d] # Never
             /\ processors[s][d] = direct[s][d]
             /\ processors'[s][d] # processors[s][d])
            => \/ \E r, w \in ProcInputs : SetContentProcessors(r, w)
               \/ \E v \in ProcInputs : SessionSetProcessor(s, d, v)]_vars

\* C8 witness: a Session of the active set whose own processor was
\* replaced by a call on the proxy.
C8_OverrideOverwritten ==
    \E s \in proxy.clients, d \in Dirs :
        direct[s][d] # Never /\ processors[s][d] # direct[s][d]

\* C9: when a slowdown() scope exits, by return or by an exception of its
\* body, the proxy's defaults are the ones the scope found when it was
\* entered, and so are the timeouts of every Session of the active set.
C9_SlowdownRestores ==
    [][\A k \in Scopes, b \in BOOLEAN :
         SlowdownExit(k, b) =>
            /\ proxy'.read_delay = scopes[k].old_read_delay
            /\ proxy'.write_delay = scopes[k].old_write_delay
            /\ \A s \in proxy'.clients :
                  /\ delay'[s].read.timeout = scopes[k].old_read_delay
                  /\ delay'[s].write.timeout = scopes[k].old_write_delay]_vars

\* The delays the proxy and its active Sessions hold.
Timeouts(p, dl) ==
    <<p.read_delay, p.write_delay,
      [s \in p.clients |-> <<dl[s].read.timeout, dl[s].write.timeout>>]>>

\* C10: an assignment of a negative delay, on a Delay or through
\* set_delay, raises in the caller and leaves the proxy's defaults and the
\* timeouts of every active Session as they were.
C10_InvalidDelayChangesNothing ==
    [][/\ \A r, w \in ConfigDelays :
            (SetDelay(r, w) /\ (~ValidTimeout(r) \/ ~ValidTimeout(w)))
            => /\ raised' = AssertionError
               /\ Timeouts(proxy', delay') = Timeouts(proxy, delay)
       /\ \A s \in Sessions, d \in Dirs, v \in ConfigDelays :
            (SessionSetTimeout(s, d, v) /\ ~ValidTimeout(v))
            => /\ raised' = AssertionError
               /\ Timeouts(proxy', delay') = Timeouts(proxy, delay)]_vars

\* C4: when a valid timeout is assigned to a Delay on which a wait() is
\* outstanding, the wait's future is resolved by the assignment, not by
\* its timer, whatever the old and the new values are, and the waiting
\* task can go on.
C4_AssignmentResolvesWait ==
    [][\A r, w \in DelayInputs :
         (/\ ValidTimeout(r) /\ ValidTimeout(w)
          /\ proxy'.read_delay = r /\ proxy'.write_delay = w
          /\ SetDelay(r, w)) =>
            \A s \in proxy.clients, d \in Dirs :
                (task[s][d].pc = "wait" /\ delay[s][d].future = "pending")
                => /\ delay'[s][d].future = "set"
                   /\ task'[s][d].pc = "wait"
                   /\ ~task'[s][d].must_cancel]_vars

\* C4 witness: a task suspended in wait() whose future was resolved by the
\* assignment of the largest timeout.
C4_WaitResolvedBySetter ==
    \E s \in Sessions, d \in Dirs :
        /\ task[s][d].pc = "wait"
        /\ delay[s][d].future = "set"
        /\ delay[s][d].timeout = MaxDelay

\* The close sequence of a Session is complete: closing is resolved, no
\* set_result is scheduled and every done callback of closing has run.
CloseCompleted(s) ==
    /\ closing[s].state = "done"
    /\ closing[s].set_results = 0
    /\ closing[s].callbacks = <<>>

\* C2: every accepted Session is in the active set from its accept until
\* its close sequence completes, and is out of the set once the close has
\* completed, whatever the outcome or the timing of its upstream connect.
C2_MemberUntilClosed ==
    \A s \in Sessions :
        conn[s] # "none" =>
            /\ closing[s].state = "pending" => s \in proxy.clients
            /\ CloseCompleted(s) => s \notin proxy.clients

\* The tasks of a Session that can still forward: created and not done.
Forwarding(s) == {d \in Dirs : task[s][d].pc # "none" /\ ~TaskDone(task[s][d])}

\* C3: once the future disconnect_all() returned is done, every Session
\* that was in the active set at the call has both pipe() tasks ended and
\* its client-side writer closed (the destination of the "write" task).
C3_DisconnectAllClosesEveryClient ==
    \A h \in Handles :
        HandleDone(gathers[h]) =>
            \A s \in Sessions :
                gathers[h].close[s] # "absent" =>
                    /\ Forwarding(s) = {}
                    /\ task[s]["write"].writer_closed

\* C5: a close() on a Session that is closed cancels nothing and changes
\* neither the Session nor the active set, and the close() calls of a
\* TCPProxy.close() that follows a completed TCPProxy.close() change
\* nothing either.
C5_CloseIsIdempotent ==
    [][\A h \in Handles, s \in Sessions :
         (/\ CloseStart(h, s)
          /\ \/ closing[s].state = "done"
             \/ pclose.completed >= 1 /\ proxy.server = "closed")
         => UNCHANGED <<proxy, task, delay, closing>>]_vars

\* C6: when close() calls on one Session overlap, closing is resolved once
\* and no scheduled callback raises: the loop's exception handler never
\* gets an InvalidStateError.
C6_ConcurrentCloseIsSafe ==
    InvalidStateError \notin loop_errors

\* C7: when both pipe() tasks of a Session end on their own, the Session
\* eventually is closed and out of the active set.
C7_NaturalEndTearsDown ==
    \A s \in Sessions :
        (\A d \in Dirs : task[s][d].pc = "finished")
            ~> (closing[s].state = "done" /\ s \notin proxy.clients)

\* A Session whose teardown is over: closing is resolved and no pipe()
\* task of it can forward.
Closed(s) == closing[s].state = "done" /\ Forwarding(s) = {}

\* C11: when TCPProxy.close() returns, the listener accepts nothing and
\* every Session accepted before the return is closed, one accepted while
\* close() was awaiting disconnect_all() included.
C11_CloseLeavesNothingRunning ==
    [][pclose'.completed > pclose.completed =>
          /\ proxy'.server # "serving"
          /\ \A s \in Sessions : conn'[s] # "none" => Closed(s)']_vars

\* C14: the server handle is present exactly while the proxy is started:
\* with no close() in progress it is either absent (not started, or closed)
\* or a listener that serves, so that __aenter__ starts a listener after a
\* close.
C14_HandlePresentWhileStarted ==
    pclose.pc \in {"idle", "returned"} => proxy.server \in {None, "serving"}

\* C16: a Session whose closing future is resolved has no pipe() task that
\* runs, whenever close() ran with respect to the upstream connect.
C16_ClosedSessionHasNoLoop ==
    \A s \in Sessions : closing[s].state = "done" => Forwarding(s) = {}

\* C15: when the timeout of start() expires before the listener is bound,
\* start() raises TimeoutError and the proxy is left not started: no server
\* handle, and the active set as it was.
C15_StartTimeoutLeavesNotStarted ==
    [][StartTimeout =>
          /\ raised' = TimeoutError
          /\ proxy'.server = None
          /\ proxy'.clients = proxy.clients]_vars

\* C15 witness: a start() that timed out, after which no connection is
\* accepted.
C15_StartTimedOut ==
    pstart.pc = "timeout" /\ raised = TimeoutError /\ proxy.server = None

\* C17: a pipe() task never ends with its destination writer open,
\* whichever way it ends: end-of-stream, an exception of read, processor
\* or drain, or a cancellation.
C17_TaskEndsWithWriterClosed ==
    \A s \in Sessions, d \in Dirs :
        TaskDone(task[s][d]) => task[s][d].writer_closed

\* C19: a loop of a proxy that is not buffered goes from writer.write to
\* writer.drain() and reads the next chunk only when the drain has returned;
\* a loop of a buffered proxy goes from writer.write straight to the next
\* read.  The flag is the one the proxy was built with.
C19_DrainBeforeNextRead ==
    [][\A s \in Sessions, d \in Dirs :
          /\ (task[s][d].pc = "proc" /\ task'[s][d].pc \in {"read", "drain"})
                => (task'[s][d].pc = "drain") = ~proxy.buffered
          /\ (task'[s][d].pc = "read" /\ task[s][d].pc \notin {"created", "read"})
                => task[s][d].pc = IF proxy.buffered THEN "proc" ELSE "drain"]_vars

\* A loop of a proxy that is not buffered is suspended in writer.drain().
C19_UnbufferedWaitsForDrain ==
    ~proxy.buffered /\ \E s \in Sessions, d \in Dirs : task[s][d].pc = "drain"

\* Every byte of the payload went through the proxy, to the target and
\* back to the client.
Delivered(s) ==
    /\ data[s].read.sent # <<>>
    /\ \A d \in Dirs : /\ data[s][d].wire = <<>>
                        /\ data[s][d].buf = <<>>
                        /\ data[s][d].held = <<>>
    /\ data[s].read.echoed = Len(data[s].read.writes)

\* The bytes the client has received.
Received(s) == Join(data[s].write.writes)

\* C13 as stated: the client of an echo target receives W(R(p)) for the
\* payload p it sent, R and W being the read and write processors.
C13_ClientReceivesProcessedPayload ==
    \A s \in Sessions :
        Delivered(s) =>
            Received(s) = Apply(processors[s].write,
                                Apply(processors[s].read, data[s].read.sent))

\* C13 amended: the processors work on chunks.  Each chunk written is the
\* processor's result for the chunk read, and a payload that travels as one
\* chunk each way comes back as W(R(p)).
C13_ChunksProcessedOneByOne ==
    \A s \in Sessions :
        /\ \A d \in Dirs : \A i \in 1..Len(data[s][d].writes) :
              data[s][d].writes[i] = Apply(processors[s][d], data[s][d].reads[i])
        /\ (Delivered(s) /\ Len(data[s].read.reads) = 1
                         /\ Len(data[s].write.reads) = 1) =>
              Received(s) = Apply(processors[s].write,
                                  Apply(processors[s].read, data[s].read.sent))

\* A payload that went through a replacing read processor and a reversing
\* write processor in two chunks.
C13_PayloadWentInTwoChunks ==
    /\ Delivered(1)
    /\ processors[1].read = Awaitable("const")
    /\ processors[1].write = Awaitable("reverse")
    /\ Len(data[1].read.reads) = 2

\* C18: in each direction the chunks are read in the order the bytes were
\* sent and written in the order they were read; the loop holds one chunk
\* at a time, from its read through the wait and the processor to its
\* write, and reads the next one only then, whatever set_delay and
\* set_content_processors calls come in between.
C18_ChunksKeepTheirOrder ==
    \A s \in Sessions, d \in Dirs :
        LET st == data[s][d] IN
        /\ Join(st.reads) \o st.buf \o st.wire = st.sent
        /\ st.wrote = Take(st.reads, Len(st.wrote))
        /\ Len(st.reads) - Len(st.wrote) = IF st.held = <<>> THEN 0 ELSE 1
        /\ st.held # <<>> => /\ st.held = st.reads[Len(st.reads)]
                             /\ task[s][d].pc \in {"wait", "proc"}
        /\ task[s][d].pc \in {"read", "drain"} => st.held = <<>>

\* Two chunks went to the target, the first through a reversing processor
\* and the second, after set_content_processors and set_delay calls, through
\* none and through a wait.
C18_TwoChunksUnderLiveChanges ==
    LET st == data[1].read IN
    /\ Len(st.wrote) = 2
    /\ st.wrote[1] # st.wrote[2]
    /\ st.writes[1] # st.wrote[1]
    /\ st.writes[2] = st.wrote[2]
    /\ processors[1].read = BlankProcessor
    /\ delay[1].read.timeout = MaxDelay

\* C12: with a read delay set on the proxy before the client connected and
\* left alone since, a chunk read from the client is written to the target
\* no sooner than the delay after its read, and no byte is back at the
\* client sooner than the delay after the client sent its payload.
C12_ReadDelayHoldsEachChunk ==
    [][\A s \in Sessions :
          /\ Len(data'[s].read.wrote) > Len(data[s].read.wrote)
                => now >= data[s].read.read_at + proxy.read_delay
          /\ data'[s].write.writes # <<>>
                => now' >= data'[s].read.sent_at + proxy'.read_delay]_vars

\* A chunk reached the target exactly the largest read delay after its
\* read.
C12_ChunkWrittenAfterDelay ==
    /\ proxy.read_delay = MaxDelay
    /\ data[1].read.wrote # <<>>
    /\ data[1].read.held = <<>>
    /\ now = data[1].read.read_at + MaxDelay

\* The tasks suspended in the wait() of a Delay on a future they armed.
Armed(s, d) ==
    (IF task[s][d].pc = "wait" THEN {Pipe} ELSE {})
        \cup {Caller(c) : c \in {k \in Callers : callers[k].pc = "wait" /\ On(k, s, d)}}

\* C20: a Delay has at most one armed wait, whoever calls wait() and
\* whenever; its future is there exactly while a wait is armed, which holds
\* the lock: the end of the wait by the timer, by an assignment of the
\* timeout or by cancellation clears it.
C20_OneArmedWait ==
    \A s \in Sessions, d \in Dirs :
        /\ Cardinality(Armed(s, d)) <= 1
        /\ (delay[s][d].future # None) = (Armed(s, d) # {})
        /\ Armed(s, d) # {} => lock[s][d].locked

\* A wait is armed on a Delay while the pipe() task and another caller queue
\* on its lock.
C20_TwoQueueOnTheLock ==
    /\ delay[1].read.future = "pending"
    /\ Len(lock[1].read.waiters) = 2
    /\ task[1].read.pc = "lock"

\* The wait of the loop was resolved by an assignment of the timeout.
Preempted(s, d) == task[s][d].pc = "wait" /\ delay[s][d].future = "set"

\* C21: an assignment of the timeout that resolves the wait of a loop
\* leaves the held chunk, the tasks and the closing future of the Session
\* as they are; the loop then hands the chunk to the processor and writes
\* it, with no other wait and whether or not time passes, whatever the new
\* timeout is; the next chunk read waits for the new timeout.
C21_PreemptedChunkIsWritten ==
    /\ [][\A s \in Sessions, d \in Dirs :
            /\ (Preempted(s, d)' /\ ~Preempted(s, d))
                  => /\ data'[s][d] = data[s][d]
                     /\ data[s][d].held # <<>>
                     /\ task'[s] = task[s]
                     /\ closing'[s] = closing[s]
            /\ (Preempted(s, d) /\ task'[s][d] # task[s][d])
                  => /\ task'[s][d].pc = "proc"
                     /\ data'[s][d].held = data[s][d].held
            /\ (task[s][d].pc = "read" /\ task'[s][d].pc = "wait")
                  => data'[s][d].due = now + delay[s][d].timeout]_vars
    /\ \A n \in 0..MaxPayload :
          (Preempted(1, "read") /\ Len(data[1].read.wrote) = n)
              ~> (Len(data[1].read.wrote) > n)

\* A wait resolved before its timer was due by the assignment of a larger
\* timeout.
C21_PreemptedByLargerTimeout ==
    /\ Preempted(1, "read")
    /\ now < data[1].read.due
    /\ data[1].read.due - data[1].read.read_at < delay[1].read.timeout

\* C22: with no close() called, a loop leaves its reads only when its own
\* source has ended its stream or its own processor has raised, and what
\* its source sent is not lost: the end of the other loop does not end it.
C22_DirectionsAreIndependent ==
    \A s \in Sessions, d \in Dirs :
        /\ (task[s][d].pc \in {"close_writer", "finished"} /\ task[s][d].exc = None)
              => data[s][d].eof = "ended"
        /\ data[s][d].eof # "closed"

C24_FailuresAreCollected ==
    [][/\ \A h \in Handles :
            (gathers'[h].called /\ ~gathers[h].called)
               => /\ \A s \in Sessions :
                        (s \in proxy.clients) = (gathers'[h].close[s] = "created")
                  /\ raised' = NoError
       /\ \A h \in Handles, s \in Sessions :
            (gathers'[h].close[s] = "raised" /\ gathers[h].close[s] # "raised")
               => /\ \A o \in Sessions \ {s} :
                        /\ gathers'[h].close[o] = gathers[h].close[o]
                        /\ task'[o] = task[o]
                        /\ closing'[o] = closing[o]
                  /\ raised' = raised
       /\ (pclose.pc = "disconnect_all" /\ pclose'.pc # "disconnect_all")
            => /\ \A s \in Sessions :
                     gathers[pclose.handle].close[s] \in {"absent", "returned", "raised"}
               /\ pclose'.pc \in {"wait_closed", "returned"}
               /\ raised' = raised]_vars

\* TCPProxy.close() went on after a disconnect_all() in which the close()
\* of one Session failed and the close() of another returned.
C24_ResolvedWithAFailure ==
    /\ pclose.pc \in {"wait_closed", "returned"}
    /\ pclose.handle \in Handles
    /\ \E s, o \in Sessions :
          /\ gathers[pclose.handle].close[s] = "raised"
          /\ gathers[pclose.handle].close[o] = "returned"

\* C25: with a timeout of zero, a call of wait() returns in the step of the
\* call and leaves the Delay as it was: its lock, its waiters and its future
\* are unchanged; a pipe() task that read a chunk with a timeout of zero goes
\* on to the processor, and neither queues on the lock nor arms a wait.
C25_ZeroTimeoutDoesNotSuspend ==
    [][ /\ \A c \in Callers :
              (/\ callers[c].pc = "idle"
               /\ callers'[c].pc # "idle"
               /\ delay[callers'[c].on[1]][callers'[c].on[2]].timeout = 0)
              => /\ callers'[c].pc = "returned"
                 /\ delay' = delay
                 /\ lock' = lock
        /\ \A s \in Sessions, d \in Dirs :
              (/\ task[s][d].pc = "read"
               /\ task'[s][d].pc \in {"lock", "wait", "proc"}
               /\ delay[s][d].timeout = 0)
              => /\ task'[s][d].pc = "proc"
                 /\ delay' = delay
                 /\ lock' = lock ]_vars

\* A caller's wait() has returned on a Delay of timeout zero whose lock the
\* pipe() task holds, its own wait resolved by the assignment of the zero.
C25_ReturnedBesideAHeldLock ==
    /\ delay[1].read.timeout = 0
    /\ delay[1].read.future = "set"
    /\ task[1].read.pc = "wait"
    /\ lock[1].read.locked
    /\ \E c \in Callers : callers[c].pc = "returned" /\ On(c, 1, "read")
====
